---- MODULE Spec2Model ----
(***************************************************************************)
(* Radar-to-lidar yaw calibration (calibrate.py).                          *)
(*                                                                         *)
(* Four specifications share this module:                                  *)
(*   Spec       the __main__ pipeline: file pairing, the frame loop with   *)
(*              the wraparound fold, sigma-clipped aggregation and the     *)
(*              overlay pass;                                              *)
(*   SpecCart   lidar_to_cartesian_image applied to bounded point clouds;  *)
(*   SpecPolar  lidar_to_polar_image applied to bounded point clouds;      *)
(*   SpecCorr   the phase-correlation step on two-row occupancy images.    *)
(*                                                                         *)
(* Arithmetic is exact.  Angles are counted in units of azimuth_step, so   *)
(* that 2*pi is StepsPerTurn(azimuth_bins) units and pi is half of that.   *)
(* Lengths are counted in half metres, so that the height band [0, 0.5] m  *)
(* is [0, ZBandMax].  Floating-point rounding is not modelled.             *)
(***************************************************************************)
EXTENDS Integers, Sequences, FiniteSets, TLC

VARIABLES
    \* ---- __main__ ----
    mainAt,          \* position of __main__
    radar_files,     \* sorted list of radar file names
    lidar_files,     \* sorted list of lidar file names
    azimuth_bins,    \* args.azimuth_bins, the configured count (line 87)
    figs,            \* whether the output directory "figs" exists
    i,               \* loop index of the frame loop / the overlay loop
    rows,            \* fft_data.shape[0] of the current radar file (line 126)
    rotation_index,  \* peak row of the correlation surface (line 155); 0 until set
    rotation,        \* the variable `rotation` (lines 156-158, 191), a fraction
    rotations,       \* the list `rotations`
    radar_loaded,    \* radar files decoded by the frame loop, in order
    lidar_loaded,    \* lidar files decoded by the frame loop, in order
    printed,         \* whether the aggregate line (line 192) was printed
    written,         \* indices idx for which combined<idx>.png was written
    \* ---- lidar_to_cartesian_image ----
    cartAt, cart_pc, cart_pixel_width, cart_resolution, cart_i, cart_img,
    \* ---- lidar_to_polar_image ----
    polarAt, polar_pc, x, range_resolution, azimuth_divs, range_bins,
    polar_azimuth_bins, polar_i, polar,
    \* ---- phase correlation ----
    corrAt, shape, polar_radar, polar_lidar, f1, f2, p, peak

mainVars == <<mainAt, radar_files, lidar_files, azimuth_bins, figs, i, rows,
              rotation_index, rotation, rotations, radar_loaded, lidar_loaded,
              printed, written>>
cartVars == <<cartAt, cart_pc, cart_pixel_width, cart_resolution, cart_i, cart_img>>
polarVars == <<polarAt, polar_pc, x, range_resolution, azimuth_divs, range_bins,
               polar_azimuth_bins, polar_i, polar>>
corrVars == <<corrAt, shape, polar_radar, polar_lidar, f1, f2, p, peak>>
vars == <<mainVars, cartVars, polarVars, corrVars>>

\* ------------------------------------------------------------------------
\* Bounds of the model
\* ------------------------------------------------------------------------
MaxFrames == 5        \* at most this many radar (and lidar) files
MaxAzimuthBins == 2   \* args.azimuth_bins ranges over 1..MaxAzimuthBins
MaxRows == 2          \* a decoded radar file has 1..MaxRows azimuth rows

\* ------------------------------------------------------------------------
\* Program constants
\* ------------------------------------------------------------------------
upsample_azimuths == 2
\* upper edge of the height band, 0.5 m, in half metres
ZBandMax == 1

\* the name `rotation` before any frame has assigned it
Unbound == [bound |-> FALSE, sum |-> 0, cnt |-> 0]

\* ------------------------------------------------------------------------
\* Helpers
\* ------------------------------------------------------------------------
Abs(n) == IF n < 0 THEN -n ELSE n

RECURSIVE Sum(_)
Sum(s) == IF s = <<>> THEN 0 ELSE Head(s) + Sum(Tail(s))

RECURSIVE SumSq(_)
SumSq(s) == IF s = <<>> THEN 0 ELSE Head(s) * Head(s) + SumSq(Tail(s))

\* rotations.std() ** 2 is VarNum(s) / Len(s)^2 (population variance, ddof = 0)
VarNum(s) == Len(s) * SumSq(s) - Sum(s) * Sum(s)

\* a mean, kept as the fraction sum/cnt; cnt = 0 is numpy's mean of an empty
\* array, nan
MeanOf(s) == [bound |-> TRUE, sum |-> Sum(s), cnt |-> Len(s)]
Scalar(k) == [bound |-> TRUE, sum |-> k, cnt |-> 1]
IsNaN(m) == m.cnt = 0
SameValue(a, b) == ~IsNaN(a) /\ ~IsNaN(b) /\ a.sum * b.cnt = b.sum * a.cnt

\* 2*pi in units of azimuth_step: azimuth_step = 2*pi / azimuth_bins / upsample
StepsPerTurn(bins) == bins * upsample_azimuths

\* ------------------------------------------------------------------------
\* __main__
\* ------------------------------------------------------------------------
FileList(n) == [j \in 1..n |-> j]

MainInit ==
    /\ mainAt = "start"
    /\ radar_files \in {FileList(n) : n \in 0..MaxFrames}
    /\ lidar_files \in {FileList(n) : n \in 0..MaxFrames}
    /\ azimuth_bins \in 1..MaxAzimuthBins
    /\ figs = FALSE
    /\ i = 0
    /\ rows = 0
    /\ rotation_index = 0
    /\ rotation = Unbound
    /\ rotations = <<>>
    /\ radar_loaded = <<>>
    /\ lidar_loaded = <<>>
    /\ printed = FALSE
    /\ written = {}

MainIdle ==
    /\ mainAt = "idle"
    /\ radar_files = <<>>
    /\ lidar_files = <<>>
    /\ azimuth_bins = 1
    /\ figs = FALSE
    /\ i = 0
    /\ rows = 0
    /\ rotation_index = 0
    /\ rotation = Unbound
    /\ rotations = <<>>
    /\ radar_loaded = <<>>
    /\ lidar_loaded = <<>>
    /\ printed = FALSE
    /\ written = {}

\* line 99: assert(len(radar_files) == len(lidar_files))
CountsMatchLoose(rf, lf) == Len(rf) <= Len(lf)
CountsMatch(rf, lf) == Len(rf) = Len(lf)

\* lines 99-102: the assertion, then os.makedirs("figs")
AssertCounts ==
    /\ mainAt = "start"
    /\ IF CountsMatch(radar_files, lidar_files)
       THEN /\ mainAt' = "loop"
            /\ figs' = TRUE
       ELSE /\ mainAt' = "aborted"
            /\ figs' = figs
    /\ UNCHANGED <<radar_files, lidar_files, azimuth_bins, i, rows, rotation_index,
                   rotation, rotations, radar_loaded, lidar_loaded, printed, written>>
    /\ UNCHANGED <<cartVars, polarVars, corrVars>>

\* lines 122-146: the frame decodes radar_files[i] and lidar_files[i]
\* (sequences here are 1-based)
LoadFrame ==
    /\ mainAt = "loop"
    /\ i < Len(radar_files)
    /\ IF i + 1 \in DOMAIN lidar_files
       THEN /\ \E r \in 1..MaxRows : rows' = r
            /\ radar_loaded' = Append(radar_loaded, radar_files[i + 1])
            /\ lidar_loaded' = Append(lidar_loaded, lidar_files[i + 1])
            /\ mainAt' = "estimate"
       ELSE \* lidar_files[i] raises IndexError (reachable only without the assert)
            /\ radar_loaded' = Append(radar_loaded, radar_files[i + 1])
            /\ mainAt' = "error"
            /\ UNCHANGED <<rows, lidar_loaded>>
    /\ UNCHANGED <<radar_files, lidar_files, azimuth_bins, figs, i, rotation_index,
                   rotation, rotations, printed, written>>
    /\ UNCHANGED <<cartVars, polarVars, corrVars>>

\* lines 156-158: candidate = rotation_index * azimuth_step, folded when > pi
Fold(k, bins) ==
    IF 2 * k > StepsPerTurn(bins) THEN StepsPerTurn(bins) - k ELSE k

\* lines 149-160: phase correlation of the two polar images, whose row count is
\* rows * upsample_azimuths; the peak row, the fold, rotations.append.
\* A correlation surface of NaNs leaves np.where empty: IndexError (see SpecCorr).
EstimateRotation ==
    /\ mainAt = "estimate"
    /\ \/ /\ \E k \in 0..(rows * upsample_azimuths - 1) :
                /\ rotation_index' = k
                /\ rotation' = Scalar(Fold(k, azimuth_bins))
                /\ rotations' = Append(rotations, Fold(k, azimuth_bins))
          /\ i' = i + 1
          /\ mainAt' = "loop"
       \/ /\ mainAt' = "error"
          /\ UNCHANGED <<rotation_index, rotation, rotations, i>>
    /\ UNCHANGED <<radar_files, lidar_files, azimuth_bins, figs, rows, radar_loaded,
                   lidar_loaded, printed, written>>
    /\ UNCHANGED <<cartVars, polarVars, corrVars>>

\* line 191:
\*   np.mean(rotations[np.abs(rotations - rotation.mean()) < 3 * rotations.std()])
\* `centre` is rotation.mean(): the scalar `rotation` left by the last frame.
\* |r - c| < 3 * std  <=>  (r - c)^2 * n^2 < 9 * VarNum
Kept(rots, centre) ==
    LET n == Len(rots)
        Near(r) == (r - centre) * (r - centre) * n * n < 9 * VarNum(rots)
    IN  SelectSeq(rots, Near)

ClippedMean(rots, centre) == MeanOf(Kept(rots, centre))

\* lines 190-192 (calibrate_translation is False).  With no frame at all the
\* name `rotation` is unbound: NameError.
Aggregate ==
    /\ mainAt = "loop"
    /\ i = Len(radar_files)
    /\ IF ~rotation.bound
       THEN /\ mainAt' = "error"
            /\ UNCHANGED <<rotation, printed, i>>
       ELSE /\ rotation' = ClippedMean(rotations, rotation.sum)
            /\ printed' = TRUE
            /\ i' = 0
            /\ mainAt' = "visualize"
    /\ UNCHANGED <<radar_files, lidar_files, azimuth_bins, figs, rows, rotation_index,
                   rotations, radar_loaded, lidar_loaded, written>>
    /\ UNCHANGED <<cartVars, polarVars, corrVars>>

\* lines 218-247: one overlay per file pair.  With a nan rotation the rotated
\* cloud holds nan, and int(nan) in lidar_to_cartesian_image raises ValueError
\* as soon as the cloud has a point inside the height band.
WriteCombined ==
    /\ mainAt = "visualize"
    /\ i < Len(radar_files)
    /\ \/ /\ written' = written \cup {i}
          /\ i' = i + 1
          /\ mainAt' = IF i + 1 = Len(radar_files) THEN "done" ELSE "visualize"
       \/ /\ IsNaN(rotation)
          /\ mainAt' = "error"
          /\ UNCHANGED <<written, i>>
    /\ UNCHANGED <<radar_files, lidar_files, azimuth_bins, figs, rows, rotation_index,
                   rotation, rotations, radar_loaded, lidar_loaded, printed>>
    /\ UNCHANGED <<cartVars, polarVars, corrVars>>

MainNext ==
    \/ AssertCounts
    \/ LoadFrame
    \/ EstimateRotation
    \/ Aggregate
    \/ WriteCombined

\* ------------------------------------------------------------------------
\* lidar_to_cartesian_image(pc, cart_pixel_width, cart_resolution)
\* ------------------------------------------------------------------------
MaxPoints == 1        \* a point cloud has at most this many points
MaxCoord == 2         \* x and y range over -MaxCoord..MaxCoord half metres

\* <<cart_pixel_width, cart_resolution>>, the resolution in half metres
CartConfigs == {<<3, 1>>, <<4, 1>>, <<4, 2>>, <<10, 1>>}

\* points <<x, y, z>>: column i of pc is <<pc[0, i], pc[1, i], pc[2, i]>>
Points == (-MaxCoord..MaxCoord) \X (-MaxCoord..MaxCoord) \X (-1..(ZBandMax + 1))

Clouds(n) == UNION {[1..m -> Points] : m \in 0..n}

\* Python's int(): truncation toward zero of n / d, d > 0
Trunc(n, d) == IF n >= 0 THEN n \div d ELSE -((-n) \div d)

\* lines 32-35, doubled to stay in the integers: 2 * cart_min_range
CartMinRange2(width, res) ==
    IF width % 2 = 0 THEN (width - 1) * res ELSE 2 * (width \div 2) * res

\* lines 40-41: int((cart_min_range - c) / cart_resolution)
CartIndex(width, res, c) == Trunc(CartMinRange2(width, res) - 2 * c, 2 * res)

\* lines 38 and 50: the height band test that skips a point
OutOfBand(z) == z < 0 \/ z > ZBandMax

\* lines 42 and 58: 0 < u and u < nu and 0 < v and v < nv
InBoundsFromZero(u, nu, v, nv) == 0 <= u /\ u < nu /\ 0 <= v /\ v < nv
InBounds(u, nu, v, nv) == 0 < u /\ u < nu /\ 0 < v /\ v < nv

\* line 43: cart_img[v, u], the cell <<row, col>> written for indices u, v
CartCellSwapped(u, v) == <<u, v>>
CartCell(u, v) == <<v, u>>

Zeros(nr, nc) == [c \in (0..(nr - 1)) \X (0..(nc - 1)) |-> 0]

\* the state after line 36
CartInit ==
    /\ cartAt = "loop"
    /\ \E cfg \in CartConfigs :
          /\ cart_pixel_width = cfg[1]
          /\ cart_resolution = cfg[2]
    /\ cart_pc \in Clouds(MaxPoints)
    /\ cart_i = 0
    /\ cart_img = Zeros(cart_pixel_width, cart_pixel_width)

CartIdle ==
    /\ cartAt = "idle"
    /\ cart_pixel_width = 0
    /\ cart_resolution = 0
    /\ cart_pc = <<>>
    /\ cart_i = 0
    /\ cart_img = <<>>

\* lines 37-43: one iteration of the loop over the points
CartStep ==
    /\ cartAt = "loop"
    /\ cart_i < Len(cart_pc)
    /\ LET pt == cart_pc[cart_i + 1]
           u == CartIndex(cart_pixel_width, cart_resolution, pt[2])
           v == CartIndex(cart_pixel_width, cart_resolution, pt[1])
       IN  cart_img' =
             IF OutOfBand(pt[3]) THEN cart_img
             ELSE IF InBounds(u, cart_pixel_width, v, cart_pixel_width)
                  THEN [cart_img EXCEPT ![CartCell(u, v)] = 255]
                  ELSE cart_img
    /\ cart_i' = cart_i + 1
    /\ UNCHANGED <<cartAt, cart_pc, cart_pixel_width, cart_resolution>>
    /\ UNCHANGED <<mainVars, polarVars, corrVars>>

\* line 44
CartReturn ==
    /\ cartAt = "loop"
    /\ cart_i = Len(cart_pc)
    /\ cartAt' = "done"
    /\ UNCHANGED <<cart_pc, cart_pixel_width, cart_resolution, cart_i, cart_img>>
    /\ UNCHANGED <<mainVars, polarVars, corrVars>>

CartNext == CartStep \/ CartReturn

\* ------------------------------------------------------------------------
\* lidar_to_polar_image(pc, range_resolution, azimuth_resolution, range_bins,
\*                      azimuth_bins)
\* The body reads the module-level name `x`, not its parameter pc (lines 50-53).
\* ------------------------------------------------------------------------
MaxPolarPoints == 1   \* pc, and the array bound to x, have at most this many points

\* <<range_resolution, azimuth_divs, range_bins, azimuth_bins>>, where
\* azimuth_resolution = 2*pi / azimuth_divs and azimuth_divs divides 8
PolarConfigs == {<<1, 8, 3, 8>>, <<1, 4, 3, 4>>, <<2, 8, 2, 6>>}

\* the module-level name x: unbound (the module was imported), or an array
XUnbound == [bound |-> FALSE, pts |-> <<>>]
XBound(c) == [bound |-> TRUE, pts |-> c]

\* floor(sqrt(n))
ISqrt(n) == CHOOSE r \in 0..n : r * r <= n /\ n < (r + 1) * (r + 1)

\* line 56: int(sqrt(x^2 + y^2) / range_resolution)
RangeBin(px, py, res) == ISqrt(px * px + py * py) \div res

\* lines 53-55: floor(theta / (pi/4)) for theta = arctan2(py, px) in [0, 2*pi)
Octant(px, py) ==
    IF py = 0 THEN (IF px >= 0 THEN 0 ELSE 4)
    ELSE IF py > 0
         THEN IF px > 0 THEN (IF py < px THEN 0 ELSE 1)
              ELSE IF px = 0 THEN 2
              ELSE (IF py > -px THEN 2 ELSE 3)
         ELSE IF px < 0 THEN (IF -py < -px THEN 4 ELSE 5)
              ELSE IF px = 0 THEN 6
              ELSE (IF -py > px THEN 6 ELSE 7)

\* line 57: int(theta / azimuth_resolution)
AzimuthBin(px, py, divs) == Octant(px, py) \div (8 \div divs)

\* line 60: np.flip(polar, axis=0)
Flip(img, nr, nc) ==
    [c \in (0..(nr - 1)) \X (0..(nc - 1)) |-> img[<<nr - 1 - c[1], c[2]>>]]

\* the state after line 48
PolarInit ==
    /\ polarAt = "loop"
    /\ \E cfg \in PolarConfigs :
          /\ range_resolution = cfg[1]
          /\ azimuth_divs = cfg[2]
          /\ range_bins = cfg[3]
          /\ polar_azimuth_bins = cfg[4]
    /\ polar_pc \in Clouds(MaxPolarPoints)
    /\ x \in {XUnbound} \cup {XBound(c) : c \in Clouds(MaxPolarPoints)}
    /\ polar_i = 0
    /\ polar = Zeros(polar_azimuth_bins, range_bins)

PolarIdle ==
    /\ polarAt = "idle"
    /\ range_resolution = 0
    /\ azimuth_divs = 0
    /\ range_bins = 0
    /\ polar_azimuth_bins = 0
    /\ polar_pc = <<>>
    /\ x = XUnbound
    /\ polar_i = 0
    /\ polar = <<>>

\* lines 49-59: one iteration; x[2, i] raises NameError when x is unbound and
\* IndexError when x has no column i
PolarStep ==
    /\ polarAt = "loop"
    /\ polar_i < Len(polar_pc)
    /\ IF ~x.bound \/ polar_i + 1 > Len(x.pts)
       THEN /\ polarAt' = "error"
            /\ UNCHANGED <<polar, polar_i>>
       ELSE /\ LET pt == x.pts[polar_i + 1]
                   r == RangeBin(pt[1], pt[2], range_resolution)
                   a == AzimuthBin(pt[1], pt[2], azimuth_divs)
               IN  polar' =
                     IF OutOfBand(pt[3]) THEN polar
                     ELSE IF InBounds(r, range_bins, a, polar_azimuth_bins)
                          THEN [polar EXCEPT ![<<a, r>>] = 255]
                          ELSE polar
            /\ polar_i' = polar_i + 1
            /\ polarAt' = polarAt
    /\ UNCHANGED <<polar_pc, x, range_resolution, azimuth_divs, range_bins,
                   polar_azimuth_bins>>
    /\ UNCHANGED <<mainVars, cartVars, corrVars>>

\* lines 60-61
PolarReturn ==
    /\ polarAt = "loop"
    /\ polar_i = Len(polar_pc)
    /\ polar' = Flip(polar, polar_azimuth_bins, range_bins)
    /\ polarAt' = "done"
    /\ UNCHANGED <<polar_pc, x, range_resolution, azimuth_divs, range_bins,
                   polar_azimuth_bins, polar_i>>
    /\ UNCHANGED <<mainVars, cartVars, corrVars>>

PolarNext == PolarStep \/ PolarReturn

\* ------------------------------------------------------------------------
\* Phase correlation of two polar occupancy images (lines 149-155)
\*
\* The images have rows * upsample_azimuths = 2 azimuth rows (one decoded
\* azimuth) and 1 or 2 range bins.  On an axis of 1 or 2 points the DFT kernel
\* exp(-2*pi*j*u*a/n) is 1 or -1, so the transform is computed exactly.
\* A complex number is [nan, re, im]; nan stands for numpy's nan+nanj.
\* ------------------------------------------------------------------------
CorrShapes == {<<2, 1>>, <<2, 2>>}

Cells(sh) == (0..(sh[1] - 1)) \X (0..(sh[2] - 1))
Images(sh) == [Cells(sh) -> {0, 255}]

Cx(re, im) == [nan |-> FALSE, re |-> re, im |-> im]
CNaN == [nan |-> TRUE, re |-> 0, im |-> 0]
CAdd(a, b) == IF a.nan \/ b.nan THEN CNaN ELSE Cx(a.re + b.re, a.im + b.im)
CMul(a, b) ==
    IF a.nan \/ b.nan THEN CNaN
    ELSE Cx(a.re * b.re - a.im * b.im, a.re * b.im + a.im * b.re)
CScale(k, a) == IF a.nan THEN CNaN ELSE Cx(k * a.re, k * a.im)
CConj(a) == IF a.nan THEN CNaN ELSE Cx(a.re, -a.im)

\* abs() of a complex number whose modulus is an integer
CAbs(a) ==
    IF a.im = 0 THEN Abs(a.re)
    ELSE IF a.re = 0 THEN Abs(a.im)
    ELSE ISqrt(a.re * a.re + a.im * a.im)

\* exp(-2*pi*j*e/n) = exp(2*pi*j*e/n) for n in {1, 2}
Kernel(n, e) == IF n = 2 /\ e % 2 = 1 THEN -1 ELSE 1

\* row-major list of the cells of an image
CellSeq(sh) == [k \in 1..(sh[1] * sh[2]) |-> <<(k - 1) \div sh[2], (k - 1) % sh[2]>>]

RECURSIVE CSum(_, _, _)
CSum(f, cs, k) == IF k = 0 THEN Cx(0, 0) ELSE CAdd(f[cs[k]], CSum(f, cs, k - 1))

\* np.fft.fft2 and, up to the factor 1/(rows*cols), np.fft.ifft2
Transform(img, sh) ==
    [c \in Cells(sh) |->
        CSum([d \in Cells(sh) |->
                 CScale(Kernel(sh[1], c[1] * d[1]) * Kernel(sh[2], c[2] * d[2]), img[d])],
             CellSeq(sh), sh[1] * sh[2])]

\* line 152: p / abs(p) elementwise; 0/0 is nan (a RuntimeWarning, no exception)
Normalise(z) ==
    IF CAbs(z) = 0 THEN CNaN ELSE Cx(z.re \div CAbs(z), z.im \div CAbs(z))

CorrInit ==
    /\ corrAt = "fft"
    /\ shape \in CorrShapes
    /\ polar_radar \in Images(shape)
    /\ polar_lidar \in Images(shape)
    /\ f1 = <<>>
    /\ f2 = <<>>
    /\ p = <<>>
    /\ peak = 0

CorrIdle ==
    /\ corrAt = "idle"
    /\ shape = <<0, 0>>
    /\ polar_radar = <<>>
    /\ polar_lidar = <<>>
    /\ f1 = <<>>
    /\ f2 = <<>>
    /\ p = <<>>
    /\ peak = 0

\* lines 149-150
CorrFFT ==
    /\ corrAt = "fft"
    /\ f1' = Transform([c \in Cells(shape) |-> Cx(polar_radar[c], 0)], shape)
    /\ f2' = Transform([c \in Cells(shape) |-> Cx(polar_lidar[c], 0)], shape)
    /\ corrAt' = "cross"
    /\ UNCHANGED <<shape, polar_radar, polar_lidar, p, peak>>
    /\ UNCHANGED <<mainVars, cartVars, polarVars>>

\* line 151: p = f2 * f1.conjugate()
CorrCross ==
    /\ corrAt = "cross"
    /\ p' = [c \in Cells(shape) |-> CMul(f2[c], CConj(f1[c]))]
    /\ corrAt' = "normalise"
    /\ UNCHANGED <<shape, polar_radar, polar_lidar, f1, f2, peak>>
    /\ UNCHANGED <<mainVars, cartVars, polarVars>>

\* line 152: p = p / abs(p)
CorrNormalise ==
    /\ corrAt = "normalise"
    /\ p' = [c \in Cells(shape) |-> Normalise(p[c])]
    /\ corrAt' = "ifft"
    /\ UNCHANGED <<shape, polar_radar, polar_lidar, f1, f2, peak>>
    /\ UNCHANGED <<mainVars, cartVars, polarVars>>

\* lines 153-154: p = abs(ifft2(p)), kept multiplied by rows*cols
CorrIFFT ==
    /\ corrAt = "ifft"
    /\ p' = LET q == Transform(p, shape)
            IN  [c \in Cells(shape) |->
                    IF q[c].nan THEN CNaN ELSE Cx(CAbs(q[c]), 0)]
    /\ corrAt' = "peak"
    /\ UNCHANGED <<shape, polar_radar, polar_lidar, f1, f2, peak>>
    /\ UNCHANGED <<mainVars, cartVars, polarVars>>

\* np.amax(p): nan as soon as one entry is nan
HasNaN(q, sh) == \E c \in Cells(sh) : q[c].nan
AMax(q, sh) == CHOOSE m \in {q[c].re : c \in Cells(sh)} : \A c \in Cells(sh) : q[c].re <= m

\* np.where(p == np.amax(p))[0]: the rows of the maxima, in row-major order;
\* no entry equals nan
PeakRows(q, sh) ==
    IF HasNaN(q, sh) THEN <<>>
    ELSE LET cs == CellSeq(sh)
             IsMax(c) == q[c].re = AMax(q, sh)
             hits == SelectSeq(cs, IsMax)
         IN  [k \in 1..Len(hits) |-> hits[k][1]]

\* line 155: rotation_index = np.where(p == np.amax(p))[0][0]; indexing the
\* empty array raises IndexError
CorrPeak ==
    /\ corrAt = "peak"
    /\ IF PeakRows(p, shape) = <<>>
       THEN /\ corrAt' = "error"
            /\ peak' = peak
       ELSE /\ corrAt' = "done"
            /\ peak' = PeakRows(p, shape)[1]
    /\ UNCHANGED <<shape, polar_radar, polar_lidar, f1, f2, p>>
    /\ UNCHANGED <<mainVars, cartVars, polarVars>>

CorrNext == CorrFFT \/ CorrCross \/ CorrNormalise \/ CorrIFFT \/ CorrPeak

\* ------------------------------------------------------------------------
\* Specifications
\* ------------------------------------------------------------------------
Init == MainInit /\ CartIdle /\ PolarIdle /\ CorrIdle
Next == MainNext
Spec == Init /\ [][Next]_vars

InitCart == MainIdle /\ CartInit /\ PolarIdle /\ CorrIdle
SpecCart == InitCart /\ [][CartNext]_vars

InitPolar == MainIdle /\ CartIdle /\ PolarInit /\ CorrIdle
SpecPolar == InitPolar /\ [][PolarNext]_vars

InitCorr == MainIdle /\ CartIdle /\ PolarIdle /\ CorrInit
SpecCorr == InitCorr /\ [][CorrNext]_vars

\* ------------------------------------------------------------------------
\* Properties of the aggregation (line 191)
\* ------------------------------------------------------------------------
\* the aggregate has been computed: `rotation` holds the final rotation
Aggregated == printed

SameOutcome(a, b) == (IsNaN(a) /\ IsNaN(b)) \/ SameValue(a, b)

\* the estimates r with |r - m| < 3 * s, m and s the mean and the standard
\* deviation of the whole list:  (n*r - Sum)^2 < 9 * VarNum
KeptAroundMean(rots) ==
    LET n == Len(rots)
        Near(r) == (n * r - Sum(rots)) * (n * r - Sum(rots)) < 9 * VarNum(rots)
    IN  SelectSeq(rots, Near)

\* every estimate lies within 3 standard deviations of the list's mean
NoOutlier(rots) ==
    \A k \in 1..Len(rots) :
        (Len(rots) * rots[k] - Sum(rots)) * (Len(rots) * rots[k] - Sum(rots))
            <= 9 * VarNum(rots)

\* C1: the final rotation is the mean of exactly the estimates that lie within
\* 3 standard deviations of the mean of all estimates.
C1_ClippedAroundMeanOfAll ==
    Aggregated => SameOutcome(rotation, MeanOf(KeptAroundMean(rotations)))

\* C2: for a list without outlier (a single frame and equal frames included) the
\* final rotation is a defined number, the plain mean of the list.
C2_NoOutlierGivesPlainMean ==
    (Aggregated /\ NoOutlier(rotations)) => SameValue(rotation, MeanOf(rotations))

\* the list a run records when its frames come in the order perm
Reordered(rots, perm) == [k \in 1..Len(rots) |-> rots[perm[k]]]

\* C3: any run whose frames yield the same estimates in another order reports
\* the same final rotation and the same standard deviation.
C3_OrderIndependent ==
    Aggregated =>
        \A perm \in Permutations(1..Len(rotations)) :
            LET q == Reordered(rotations, perm)
            IN  /\ SameOutcome(ClippedMean(q, q[Len(q)]), rotation)
                /\ VarNum(q) = VarNum(rotations)

\* ------------------------------------------------------------------------
\* Properties of the fold (lines 155-160)
\* ------------------------------------------------------------------------
\* a frame has just recorded its estimate: rotation_index and rotation are its
JustRecorded == mainAt = "loop" /\ i > 0

\* C8: on an azimuth axis of N = StepsPerTurn bins the recorded rotation is
\* congruent to the candidate modulo N and is the representative of smaller
\* magnitude; the frame's peak row k and the opposite peak row N - k are
\* recorded as different rotations.
C8_FoldKeepsRotation ==
    (JustRecorded /\ rows = azimuth_bins) =>
        LET n == StepsPerTurn(azimuth_bins)
        IN  /\ (rotation.sum - rotation_index) % n = 0
            /\ 2 * Abs(rotation.sum) <= n
            /\ (0 < rotation_index /\ 2 * rotation_index # n) =>
                  rotation.sum # Fold(n - rotation_index, azimuth_bins)

\* C9: for every frame the candidate lies in [0, 2*pi) and the recorded rotation
\* in (-pi, pi], whatever the number of azimuth rows of the radar file.
C9_RotationRanges ==
    JustRecorded =>
        LET n == StepsPerTurn(azimuth_bins)
        IN  /\ 0 <= rotation_index /\ rotation_index < n
            /\ -n < 2 * rotation.sum /\ 2 * rotation.sum <= n

\* ------------------------------------------------------------------------
\* Properties of the file pairing (lines 93-122)
\* ------------------------------------------------------------------------
\* C10: with file lists of different lengths the run aborts before it decodes a
\* file, records an estimate, prints an aggregate or creates the output
\* directory or an overlay; with equal lengths the frames are decoded in sorted
\* order, one estimate per file pair, and the aggregate follows the last frame.
C10_MismatchFatalElseSequential ==
    /\ Len(radar_files) # Len(lidar_files) =>
          /\ mainAt \in {"start", "aborted"}
          /\ radar_loaded = <<>> /\ lidar_loaded = <<>>
          /\ rotations = <<>>
          /\ ~printed /\ ~figs /\ written = {}
    /\ Len(radar_files) = Len(lidar_files) =>
          /\ mainAt # "aborted"
          /\ Len(radar_loaded) <= Len(radar_files)
          /\ radar_loaded = SubSeq(radar_files, 1, Len(radar_loaded))
          /\ lidar_loaded = SubSeq(lidar_files, 1, Len(radar_loaded))
          /\ Len(rotations) <= Len(radar_loaded)
          /\ Len(radar_loaded) <= Len(rotations) + 1
          /\ mainAt = "loop" => (Len(rotations) = i /\ Len(radar_loaded) = i)
          /\ Aggregated => Len(rotations) = Len(radar_files)
          /\ written # {} => Aggregated

C10_Witness ==
    /\ mainAt = "aborted"
    /\ Len(radar_files) > 0
    /\ Len(lidar_files) > Len(radar_files)

\* ------------------------------------------------------------------------
\* Properties of lidar_to_cartesian_image
\* ------------------------------------------------------------------------
\* floor(n / d), d > 0
Floor(n, d) == n \div d

\* twice minRange: (W/2 - 0.5) * res for even W, floor(W/2) * res for odd W
RefMinRange2(width, res) ==
    IF width % 2 = 0 THEN (width - 1) * res ELSE 2 * (width \div 2) * res

RefCartLit(cloud, width, res, row, col) ==
    \E k \in 1..Len(cloud) :
        /\ 0 <= cloud[k][3] /\ cloud[k][3] <= ZBandMax
        /\ row = Floor(RefMinRange2(width, res) - 2 * cloud[k][1], 2 * res)
        /\ col = Floor(RefMinRange2(width, res) - 2 * cloud[k][2], 2 * res)
        /\ 0 < row /\ row < width
        /\ 0 < col /\ col < width

\* C4: the returned image is the reference rasterization: cell (row, col) is 255
\* iff some point of the height band has row = floor((minRange - x)/res) and
\* col = floor((minRange - y)/res), both strictly inside (0, W); else 0.
C4_ReferenceRasterization ==
    cartAt = "done" =>
        \A row \in 0..(cart_pixel_width - 1), col \in 0..(cart_pixel_width - 1) :
            cart_img[<<row, col>>] =
                IF RefCartLit(cart_pc, cart_pixel_width, cart_resolution, row, col)
                THEN 255 ELSE 0

\* a returned image of a cloud with a point of the height band whose y exceeds
\* minRange, where int() gives 0 and floor gives -1
C4_Witness ==
    /\ cartAt = "done"
    /\ \E k \in 1..Len(cart_pc) :
          /\ ~OutOfBand(cart_pc[k][3])
          /\ CartIndex(cart_pixel_width, cart_resolution, cart_pc[k][2]) = 0
          /\ Floor(RefMinRange2(cart_pixel_width, cart_resolution) - 2 * cart_pc[k][2],
                   2 * cart_resolution) < 0
          /\ InBounds(1, cart_pixel_width,
                      CartIndex(cart_pixel_width, cart_resolution, cart_pc[k][1]),
                      cart_pixel_width)

\* the scenario: the single point (1.0, 0.0, 0.0) m, resolution 0.5 m, width 10
C5_Scenario ==
    /\ cartAt = "done"
    /\ cart_pc = << <<2, 0, 0>> >>
    /\ cart_resolution = 1
    /\ cart_pixel_width = 10

OnlyLit(img, width, cell) ==
    \A row \in 0..(width - 1), col \in 0..(width - 1) :
        img[<<row, col>>] = IF <<row, col>> = cell THEN 255 ELSE 0

\* C5 as stated: minRange is 2.25 m and the image is 255 exactly at
\* (row=4, col=2).
C5_AsStated ==
    C5_Scenario =>
        /\ CartMinRange2(cart_pixel_width, cart_resolution) = 9
        /\ OnlyLit(cart_img, cart_pixel_width, <<4, 2>>)

\* C5 amended: minRange is 2.25 m and the image is 255 exactly at
\* (row=2, col=4): the row comes from x, the column from y.
C5_Amended ==
    C5_Scenario =>
        /\ CartMinRange2(cart_pixel_width, cart_resolution) = 9
        /\ OnlyLit(cart_img, cart_pixel_width, <<2, 4>>)

C5_Witness == C5_Scenario /\ cart_img[<<2, 4>>] = 255

\* ------------------------------------------------------------------------
\* Properties of lidar_to_polar_image
\* ------------------------------------------------------------------------
RefPolarLit(cloud, res, divs, nr, na, a, r) ==
    \E k \in 1..Len(cloud) :
        /\ 0 <= cloud[k][3] /\ cloud[k][3] <= ZBandMax
        /\ r = ISqrt(cloud[k][1] * cloud[k][1] + cloud[k][2] * cloud[k][2]) \div res
        /\ a = Octant(cloud[k][1], cloud[k][2]) \div (8 \div divs)
        /\ 0 < r /\ r < nr
        /\ 0 < a /\ a < na

\* C6: what the call returns is, for any argument pc and whatever array the
\* name x is bound to, the flipped polar rasterization of pc: cell (azimuth_bins - 1 - a, r) is 255 iff some point of pc in the
\* height band has range bin r and azimuth bin a, both strictly inside; else 0.
C6_RasterizesItsArgument ==
    polarAt = "done" =>
        \A a \in 0..(polar_azimuth_bins - 1), r \in 0..(range_bins - 1) :
            polar[<<polar_azimuth_bins - 1 - a, r>>] =
                IF RefPolarLit(polar_pc, range_resolution, azimuth_divs, range_bins,
                               polar_azimuth_bins, a, r)
                THEN 255 ELSE 0

\* ------------------------------------------------------------------------
\* Properties of the phase correlation
\* ------------------------------------------------------------------------
\* C7: a zero-magnitude bin of the cross-power spectrum is a zero contribution:
\* normalising never divides by zero, the correlation surface holds only defined
\* values and the peak lookup returns an index.
C7_ZeroBinsGuarded ==
    /\ corrAt # "error"
    /\ corrAt \in {"ifft", "peak", "done"} => ~HasNaN(p, shape)

====
